---- MODULE Spec2Model ----
(***************************************************************************)
(* Model of recursive_call_tracker/call_tracker.py: the RecursiveCall      *)
(* record, the CallTracker decorator with its per-thread call stacks, and  *)
(* the iterative pretty_print traversal.                                   *)
(*                                                                         *)
(* Records live in an arena indexed 1..MaxCalls; a reference to a record   *)
(* is its index and the reference None is NoCall.  args and kwargs are     *)
(* opaque values that no control flow depends on; a record's index stands  *)
(* for them.  Threads interleave at the granularity of the statements of   *)
(* wrapper(): the dict lookup, list.append and list.pop calls are single   *)
(* operations of the interpreter.                                          *)
(***************************************************************************)
EXTENDS Integers, Sequences, FiniteSets, TLC

\* ---------------------------------------------------------------- bounds
MaxCalls == 3

Threads == {1, 2}
Calls == 1..MaxCalls
NoCall == 0

UNINITIALIZED == "UNINITIALIZED"
None == "None"
RetVals == {None, "v1"}
Excs == {"e1", "e2"}
NoExc == "NoExc"
IndexError == "IndexError"
Indents == {2, 4}

VARIABLES
    \* RecursiveCall fields, per record
    caller, callees, result,
    \* CallTracker fields
    _call_stacks, start_calls,
    \* interpreter state: next free record, per-thread wrapper frames,
    \* per-thread exception in flight
    nextId, frames, pending,
    \* history of each invocation (not read by the program)
    thread_of, depth_at_begin, len_before, ended, func_outcome, delivered,
    stored_on,
    \* pretty_print locals and the text written to stdout
    pp_pc, pp_self, pp_indent, current, depth, callee_iterators, out

recVars == <<caller, callees, result>>
trackerVars == <<_call_stacks, start_calls>>
runVars == <<nextId, frames, pending>>
histVars == <<thread_of, depth_at_begin, len_before, ended, func_outcome,
              delivered, stored_on>>
ppVars == <<pp_pc, pp_self, pp_indent, current, depth, callee_iterators, out>>
vars == <<recVars, trackerVars, runVars, histVars, ppVars>>

\* ---------------------------------------------------------------- helpers
Created == 1..(nextId - 1)
Last(s) == s[Len(s)]
Front(s) == SubSeq(s, 1, Len(s) - 1)
Range(s) == {s[i] : i \in 1..Len(s)}
Max0(n) == IF n < 0 THEN 0 ELSE n

\* threading.get_ident(): a distinct integer per live thread
get_ident_shared(t) == 1
get_ident(t) == t

\* defaultdict(list).__getitem__: the stack stored under key, created empty
\* when the key is absent
Lookup_reset(stacks, key) == (key :> <<>>) @@ stacks
Lookup(stacks, key) ==
    IF key \in DOMAIN stacks THEN stacks ELSE (key :> <<>>) @@ stacks

\* list.pop(): the element it returns and the list it leaves behind
list_pop_item(s) == Last(s)
list_pop_rest_kept(s) == s
list_pop_rest(s) == Front(s)

\* RecursiveCall.add_callee(self, callee)
add_callee_callees_dropped(cs, self, callee) == cs
add_callee_callees(cs, self, callee) == [cs EXCEPT ![self] = Append(@, callee)]
add_callee_caller_unset(cr, self, callee) == cr
add_callee_caller(cr, self, callee) == [cr EXCEPT ![callee] = self]

\* the value wrapper() hands back at `return result`
wrapper_return_none(res) == None
wrapper_return(res) == res

\* ---------------------------------------------------------------- Init
\* CallTracker.__init__ and no call made yet
Init ==
    /\ caller = [c \in Calls |-> NoCall]
    /\ callees = [c \in Calls |-> <<>>]
    /\ result = [c \in Calls |-> UNINITIALIZED]
    /\ _call_stacks = <<>>
    /\ start_calls = <<>>
    /\ nextId = 1
    /\ frames = [t \in Threads |-> <<>>]
    /\ pending = [t \in Threads |-> NoExc]
    /\ thread_of = [c \in Calls |-> 0]
    /\ depth_at_begin = [c \in Calls |-> 0]
    /\ len_before = [c \in Calls |-> 0]
    /\ ended = [c \in Calls |-> "no"]
    /\ func_outcome = [c \in Calls |-> "-"]
    /\ delivered = [c \in Calls |-> "-"]
    /\ stored_on = [c \in Calls |-> NoCall]
    /\ pp_pc = "idle"
    /\ pp_self = NoCall
    /\ pp_indent = 0
    /\ current = NoCall
    /\ depth = 0
    /\ callee_iterators = <<>>
    /\ out = <<>>

\* ---------------------------------------------------------------- wrapper
TopFrame(t) == Last(frames[t])
InBody(t) == frames[t] # <<>> /\ TopFrame(t).pc = "func"
\* thread t is executing code that may call the instrumented function:
\* the thread's own top level, or the body of the wrapped function
CanCall(t) == pending[t] = NoExc /\ (frames[t] = <<>> \/ InBody(t))

\* lines 126-127: call = RecursiveCall(args, kwargs);
\*                call_stack = self._call_stacks[threading.get_ident()]
Enter(t) ==
    /\ pp_pc = "idle"
    /\ CanCall(t)
    /\ nextId <= MaxCalls
    /\ LET call == nextId
           key == get_ident(t)
           stacks == Lookup(_call_stacks, key)
       IN /\ caller' = [caller EXCEPT ![call] = NoCall]
          /\ callees' = [callees EXCEPT ![call] = <<>>]
          /\ result' = [result EXCEPT ![call] = UNINITIALIZED]
          /\ _call_stacks' = stacks
          /\ frames' = [frames EXCEPT ![t] =
                 Append(@, [call |-> call, call_stack |-> key, pc |-> "link"])]
          /\ nextId' = nextId + 1
          /\ thread_of' = [thread_of EXCEPT ![call] = t]
          /\ depth_at_begin' = [depth_at_begin EXCEPT ![call] = Len(frames[t])]
          /\ len_before' = [len_before EXCEPT ![call] = Len(stacks[key])]
    /\ UNCHANGED <<start_calls, pending, ended, func_outcome, delivered,
                   stored_on, ppVars>>

\* lines 129-132: if call_stack: call_stack[-1].add_callee(call)
\*                else: self.start_calls.append(call)
Link(t) ==
    /\ pp_pc = "idle"
    /\ frames[t] # <<>>
    /\ TopFrame(t).pc = "link"
    /\ LET call == TopFrame(t).call
           call_stack == _call_stacks[TopFrame(t).call_stack]
       IN IF call_stack # <<>>
          THEN /\ callees' = add_callee_callees(callees, Last(call_stack), call)
               /\ caller' = add_callee_caller(caller, Last(call_stack), call)
               /\ UNCHANGED start_calls
          ELSE /\ start_calls' = Append(start_calls, call)
               /\ UNCHANGED <<caller, callees>>
    /\ frames' = [frames EXCEPT ![t][Len(frames[t])].pc = "push"]
    /\ UNCHANGED <<result, _call_stacks, nextId, pending, histVars, ppVars>>

\* line 134: call_stack.append(call)
Push(t) ==
    /\ pp_pc = "idle"
    /\ frames[t] # <<>>
    /\ TopFrame(t).pc = "push"
    /\ _call_stacks' = [_call_stacks EXCEPT ![TopFrame(t).call_stack] =
                            Append(@, TopFrame(t).call)]
    /\ frames' = [frames EXCEPT ![t][Len(frames[t])].pc = "func"]
    /\ UNCHANGED <<recVars, start_calls, nextId, pending, histVars, ppVars>>

\* lines 136-140, func returns v: result = func(*args, **kwargs);
\*     call_stack.pop().result = result; return result
\* (list.pop on an empty list raises IndexError out of the wrapper)
Return(t, v) ==
    /\ pp_pc = "idle"
    /\ InBody(t)
    /\ pending[t] = NoExc
    /\ LET call == TopFrame(t).call
           key == TopFrame(t).call_stack
           call_stack == _call_stacks[key]
       IN /\ ended' = [ended EXCEPT ![call] = "returned"]
          /\ func_outcome' = [func_outcome EXCEPT ![call] = v]
          /\ IF call_stack = <<>>
             THEN /\ delivered' = [delivered EXCEPT ![call] = IndexError]
                  /\ pending' = [pending EXCEPT ![t] = IndexError]
                  /\ UNCHANGED <<result, _call_stacks, stored_on>>
             ELSE /\ _call_stacks' = [_call_stacks EXCEPT ![key] = list_pop_rest(@)]
                  /\ result' = [result EXCEPT ![list_pop_item(call_stack)] = v]
                  /\ stored_on' = [stored_on EXCEPT ![call] = list_pop_item(call_stack)]
                  /\ delivered' = [delivered EXCEPT ![call] = wrapper_return(v)]
                  /\ UNCHANGED pending
    /\ frames' = [frames EXCEPT ![t] = Front(@)]
    /\ UNCHANGED <<caller, callees, start_calls, nextId, thread_of,
                   depth_at_begin, len_before, ppVars>>

\* line 136, func raises e: the wrapper has no handler, so its frame is
\* unwound with the exception and lines 138-140 are not executed
Unwind(t, e) ==
    /\ LET call == TopFrame(t).call
       IN /\ ended' = [ended EXCEPT ![call] = "raised"]
          /\ func_outcome' = [func_outcome EXCEPT ![call] = e]
          /\ delivered' = [delivered EXCEPT ![call] = e]
    /\ frames' = [frames EXCEPT ![t] = Front(@)]
    /\ pending' = [pending EXCEPT ![t] = e]
    /\ UNCHANGED <<recVars, trackerVars, nextId, thread_of, depth_at_begin,
                   len_before, stored_on, ppVars>>

\* the body of the wrapped function raises a failure of its own
Raise(t, e) ==
    /\ pp_pc = "idle"
    /\ InBody(t)
    /\ pending[t] = NoExc
    /\ Unwind(t, e)

\* a nested call failed and the enclosing body does not handle the failure:
\* it leaves the enclosing invocation as well
Propagate(t) ==
    /\ pp_pc = "idle"
    /\ pending[t] # NoExc
    /\ frames[t] # <<>>
    /\ Unwind(t, pending[t])

\* the code that made the failed call (an enclosing body, or the thread's
\* top level) handles the failure and carries on
Catch(t) ==
    /\ pp_pc = "idle"
    /\ pending[t] # NoExc
    /\ pending' = [pending EXCEPT ![t] = NoExc]
    /\ UNCHANGED <<recVars, trackerVars, nextId, frames, histVars, ppVars>>

\* ---------------------------------------------------------------- pretty_print
\* RecursiveCall._indent_from_depth(depth, indent=, hanging=): the number of
\* spaces of the returned string (" " * n is empty for n <= 0)
_indent_from_depth_flat(d, indent, hanging) ==
    Max0((IF d = 0 THEN 0 ELSE indent * d) + (IF hanging THEN indent ELSE 0))
_indent_from_depth(d, indent, hanging) ==
    Max0((IF d = 0 THEN 0 ELSE indent * d * 2) + (IF hanging THEN indent ELSE 0))

Line(kind, node, width) == [kind |-> kind, node |-> node, indent |-> width]

\* lines 69-83: the lines printed when `current` is met for the first time
FirstVisitLines(c, d, indent) ==
    << Line("header", c, _indent_from_depth(d, indent, FALSE)),
       Line("result", c, _indent_from_depth(d, indent, TRUE)),
       Line("args", c, _indent_from_depth(d, indent, TRUE)),
       Line("kwargs", c, _indent_from_depth(d, indent, TRUE)),
       Line(IF callees[c] = <<>> THEN "empty" ELSE "open", c,
            _indent_from_depth(d, indent, TRUE)) >>

\* lines 88-91: the closing marker printed when the children are exhausted
ClosingLines(c, d, indent) ==
    IF callees[c] # <<>>
    THEN << Line("close", c, _indent_from_depth(d, indent, TRUE)) >>
    ELSE << >>

\* no thread is inside the instrumented function
Quiescent == \A t \in Threads : frames[t] = <<>> /\ pending[t] = NoExc

\* lines 62-64: r.pretty_print(indent=w) is called on a record of the forest
PrintStart(r, w) ==
    /\ pp_pc = "idle"
    /\ Quiescent
    /\ r \in Created
    /\ pp_pc' = "loop"
    /\ pp_self' = r
    /\ pp_indent' = w
    /\ current' = r
    /\ depth' = 0
    /\ callee_iterators' = <<>>
    /\ out' = <<>>
    /\ UNCHANGED <<recVars, trackerVars, runVars, histVars>>

\* line 86: next() on an iterator over c.callees that has yielded n elements
next_callee_reversed(c, n) == callees[c][Len(callees[c]) - n]
next_callee(c, n) == callees[c][n + 1]

\* lines 66-95: one iteration of `while current is not None`.  An iterator
\* over current.callees is the count of elements it has already yielded.
PrintStep ==
    /\ pp_pc = "loop"
    /\ current # NoCall
    /\ LET first == current \notin DOMAIN callee_iterators
           its == IF first THEN (current :> 0) @@ callee_iterators
                  ELSE callee_iterators
           printed == IF first
                      THEN out \o FirstVisitLines(current, depth, pp_indent)
                      ELSE out
       IN IF its[current] < Len(callees[current])
          THEN \* next() yields a child: descend
               /\ callee_iterators' = [its EXCEPT ![current] = @ + 1]
               /\ current' = next_callee(current, its[current])
               /\ depth' = depth + 1
               /\ out' = printed
          ELSE \* StopIteration: close and go back up through caller
               /\ callee_iterators' = its
               /\ out' = printed \o ClosingLines(current, depth, pp_indent)
               /\ depth' = depth - 1
               /\ current' = caller[current]
    /\ UNCHANGED <<pp_pc, pp_self, pp_indent>>
    /\ UNCHANGED <<recVars, trackerVars, runVars, histVars>>

\* line 66: current is None, the loop ends and pretty_print returns
PrintEnd ==
    /\ pp_pc = "loop"
    /\ current = NoCall
    /\ pp_pc' = "done"
    /\ UNCHANGED <<pp_self, pp_indent, current, depth, callee_iterators, out>>
    /\ UNCHANGED <<recVars, trackerVars, runVars, histVars>>

\* the caller of pretty_print carries on; its locals are gone
PrintReturn ==
    /\ pp_pc = "done"
    /\ pp_pc' = "idle"
    /\ pp_self' = NoCall
    /\ pp_indent' = 0
    /\ current' = NoCall
    /\ depth' = 0
    /\ callee_iterators' = <<>>
    /\ out' = <<>>
    /\ UNCHANGED <<recVars, trackerVars, runVars, histVars>>

Next ==
    \/ \E t \in Threads : Enter(t)
    \/ \E t \in Threads : Link(t)
    \/ \E t \in Threads : Push(t)
    \/ \E t \in Threads, v \in RetVals : Return(t, v)
    \/ \E t \in Threads, e \in Excs : Raise(t, e)
    \/ \E t \in Threads : Propagate(t)
    \/ \E t \in Threads : Catch(t)
    \/ \E r \in Calls, w \in Indents : PrintStart(r, w)
    \/ PrintStep
    \/ PrintEnd
    \/ PrintReturn

Spec == Init /\ [][Next]_vars

\* pretty_print runs on the thread that called it and is never suspended
\* for good: its loop keeps taking steps until it ends
FairSpec == Spec /\ WF_vars(PrintStep) /\ WF_vars(PrintEnd)

\* ---------------------------------------------------------------- history
\* record c has been placed in the forest (lines 129-132 ran for it)
Linked(c) ==
    /\ c \in Created
    /\ \A t \in Threads : \A i \in 1..Len(frames[t]) :
           ~(frames[t][i].call = c /\ frames[t][i].pc = "link")

\* record c has been pushed and its invocation is still running
Active(c) ==
    \E t \in Threads : \E i \in 1..Len(frames[t]) : frames[t][i].call = c

RECURSIVE Depth(_)
\* number of caller links from c up to a record without caller
Depth(c) == IF caller[c] = NoCall THEN 0 ELSE 1 + Depth(caller[c])

RECURSIVE InSubtree(_, _)
\* c is r or a descendant of r
InSubtree(r, c) ==
    IF c = r THEN TRUE
    ELSE IF caller[c] = NoCall THEN FALSE
    ELSE InSubtree(r, caller[c])

NoDuplicates(s) == \A i, j \in 1..Len(s) : s[i] = s[j] => i = j

\* the first invocation made by thread t, NoCall before it has made one
FirstCallOf(t) ==
    IF \E c \in Created : thread_of[c] = t
    THEN CHOOSE c \in Created :
             /\ thread_of[c] = t
             /\ \A d \in Created : thread_of[d] = t => c <= d
    ELSE NoCall

\* ---------------------------------------------------------------- claims

\* C1: when the wrapped function raises, the record pushed for that
\* invocation is popped before the failure leaves the wrapper: right after
\* the step in which invocation c ends by raising, the stack of its thread
\* does not contain c and is as long as it was right before c began.
C1_PopOnFailure ==
    [][\A c \in Calls :
         (ended[c] = "no" /\ ended'[c] = "raised") =>
            LET key == TopFrame(thread_of[c]).call_stack
            IN /\ c \notin Range(_call_stacks'[key])
               /\ Len(_call_stacks'[key]) = len_before[c]]_vars

\* C2: the records of start_calls are exactly the invocations that began
\* while no tracked call was active on their thread, and each of them has
\* caller = None.
C2_RootsExact ==
    /\ Range(start_calls) = {c \in Created : Linked(c) /\ depth_at_begin[c] = 0}
    /\ \A c \in Range(start_calls) : caller[c] = NoCall

\* C3: a record's result is UNINITIALIZED until its own call has returned,
\* and from then on equals the value that call returned (None included).
C3_ResultOfOwnCall ==
    \A c \in Created :
        /\ ended[c] = "no" => result[c] = UNINITIALIZED
        /\ ended[c] = "returned" => result[c] = func_outcome[c]

\* C4: a record's result is written only by the step in which the record's
\* own call returns, from UNINITIALIZED, hence at most once and never for a
\* call that ended by raising.
C4_PendingThenFinalized ==
    [][\A c \in Calls :
         result'[c] # result[c] =>
            /\ result[c] = UNINITIALIZED
            /\ ended[c] = "no"
            /\ ended'[c] = "returned"
            /\ result'[c] = func_outcome'[c]]_vars

\* C5: the wrapper hands its caller exactly what the wrapped function
\* produced: the returned value if it returned, the raised failure if it
\* raised.
C5_Transparent ==
    \A c \in Created :
        ended[c] # "no" => delivered[c] = func_outcome[c]

C5_Witness ==
    /\ \E c \in Created : ended[c] = "returned" /\ delivered[c] = "v1"
    /\ \E c \in Created : ended[c] = "returned" /\ delivered[c] = None
    /\ \E c \in Created : ended[c] = "raised" /\ delivered[c] = "e2"
    /\ \E k \in DOMAIN _call_stacks : _call_stacks[k] # <<>>

\* C6: parent/child links are consistent: a record occurs in at most one
\* callees list and at most once in it; caller[c] = p exactly when c is an
\* element of callees[p].
C6_LinksConsistent ==
    /\ \A c \in Calls : caller[c] # NoCall => c \in Range(callees[caller[c]])
    /\ \A p \in Calls : \A c \in Range(callees[p]) : caller[c] = p
    /\ \A p \in Calls : NoDuplicates(callees[p])
    /\ \A p, q \in Calls :
           p # q => Range(callees[p]) \cap Range(callees[q]) = {}

C6_Witness ==
    \E p \in Created : Len(callees[p]) = 2 /\ ended[callees[p][1]] = "raised"

\* C7: the forest holds one record per entry into the instrumented
\* function, and the depth of each record in the forest equals the number of
\* tracked calls active on its thread when its call began.
C7_DepthIsCallDepth ==
    /\ \A c \in Created :
           Linked(c) => (c \in Range(start_calls)
                          \/ \E p \in Created : c \in Range(callees[p]))
    /\ \A c \in Created : Linked(c) => Depth(c) = depth_at_begin[c]

\* C8: per-thread stacks are isolated: a record is never a child of a
\* record of another thread, a stack holds only records of its own thread,
\* and start_calls holds exactly one root per outermost call of each thread.
C8_ThreadIsolation ==
    /\ \A c \in Created :
           caller[c] # NoCall => thread_of[caller[c]] = thread_of[c]
    /\ \A k \in DOMAIN _call_stacks : \A c \in Range(_call_stacks[k]) :
           get_ident(thread_of[c]) = k
    /\ NoDuplicates(start_calls)
    /\ \A c \in Created :
           (Linked(c) /\ depth_at_begin[c] = 0) <=> c \in Range(start_calls)

\* C9: concurrent first use is safe: every thread works on a stack of its
\* own that stays in the mapping, and the root of every thread's first
\* call, once appended, is in start_calls exactly once.
C9_ConcurrentFirstUse ==
    /\ \A t1, t2 \in Threads :
           \A i \in 1..Len(frames[t1]) : \A j \in 1..Len(frames[t2]) :
               t1 # t2 => frames[t1][i].call_stack # frames[t2][j].call_stack
    /\ \A t \in Threads : \A i \in 1..Len(frames[t]) :
           frames[t][i].call_stack \in DOMAIN _call_stacks
    /\ NoDuplicates(start_calls)
    /\ \A t \in Threads :
           Linked(FirstCallOf(t)) =>
               /\ FirstCallOf(t) \in Range(start_calls)
               /\ caller[FirstCallOf(t)] = NoCall

\* both threads are in their first call at once, each having appended its
\* root and neither having pushed yet
C9_Witness ==
    /\ \A t \in Threads :
           /\ Len(frames[t]) = 1
           /\ frames[t][1].pc = "push"
           /\ frames[t][1].call = FirstCallOf(t)
    /\ Len(start_calls) = Cardinality(Threads)

\* C10: pretty_print on record r prints lines of r and of r's descendants
\* only, also when r has a caller.
C10_PrintsOnlySubtree ==
    pp_pc # "idle" => \A i \in 1..Len(out) : InSubtree(pp_self, out[i].node)

RECURSIVE Flatten(_)
Flatten(ss) == IF ss = <<>> THEN <<>> ELSE Head(ss) \o Flatten(Tail(ss))

RECURSIVE Preorder(_)
\* the records of the tree rooted at r: r, then the subtree of each child
\* in callees order
Preorder(r) ==
    <<r>> \o Flatten([i \in 1..Len(callees[r]) |-> Preorder(callees[r][i])])

IsHeaderIn(r, l) == l.kind = "header" /\ InSubtree(r, l.node)
\* the records whose header was printed, in print order, among the records
\* of the tree rooted at r
HeadersOf(r) ==
    LET hs == SelectSeq(out, LAMBDA l : IsHeaderIn(r, l))
    IN [i \in 1..Len(hs) |-> hs[i].node]

\* every header is directly followed by the field lines and the callees
\* marker of the same record
FieldsFollowHeader ==
    \A i \in 1..Len(out) :
        out[i].kind = "header" =>
            /\ i + 4 <= Len(out)
            /\ \A k \in 1..4 : out[i + k].node = out[i].node
            /\ out[i + 1].kind = "result"
            /\ out[i + 2].kind = "args"
            /\ out[i + 3].kind = "kwargs"
            /\ out[i + 4].kind =
                   (IF callees[out[i].node] = <<>> THEN "empty" ELSE "open")

\* C11: on a finite tree pretty_print terminates, and it has then printed
\* the header of every record of the tree rooted at the printed record
\* exactly once, in depth-first pre-order (callees in stored order), each
\* header followed by the record's own fields before any child.
C11_PreorderAndTerminates ==
    /\ [](pp_pc = "done" =>
             /\ HeadersOf(pp_self) = Preorder(pp_self)
             /\ FieldsFollowHeader)
    /\ (pp_pc = "loop") ~> (pp_pc = "done")

\* a finished print of a root that has two children, the first of which has
\* a child of its own
C11_Witness ==
    /\ pp_pc = "done"
    /\ caller[pp_self] = NoCall
    /\ Len(callees[pp_self]) = 2
    /\ Len(out) >= 15

\* nesting depth of record c below the printed record r (r itself = 0)
NestingDepth(r, c) == Depth(c) - Depth(r)

HangingKinds == {"result", "args", "kwargs", "open", "empty"}

\* C12 as stated: for every record at nesting depth d below the printed
\* record, the header line and the closing-marker line are indented by
\* w*d*2 spaces and the field and callees-marker lines by w*d*2 + w.
C12_ClosingAtHeaderIndent ==
    \A i \in 1..Len(out) :
        InSubtree(pp_self, out[i].node) =>
            LET d == NestingDepth(pp_self, out[i].node)
            IN /\ out[i].kind \in {"header", "close"} =>
                      out[i].indent = pp_indent * d * 2
               /\ out[i].kind \in HangingKinds =>
                      out[i].indent = pp_indent * d * 2 + pp_indent

\* C12 (amended): the header line is indented by w*d*2 spaces; the field
\* lines, the callees-marker line and the closing-marker line are indented
\* by w*d*2 + w.
C12_Indentation ==
    \A i \in 1..Len(out) :
        InSubtree(pp_self, out[i].node) =>
            LET d == NestingDepth(pp_self, out[i].node)
            IN /\ out[i].kind = "header" =>
                      out[i].indent = pp_indent * d * 2
               /\ out[i].kind \in HangingKinds \cup {"close"} =>
                      out[i].indent = pp_indent * d * 2 + pp_indent

\* a finished print of a chain of three records: the middle one, at depth 1,
\* has printed its header and its closing marker
C12_Witness ==
    /\ pp_pc = "done"
    /\ \E i, j \in 1..Len(out) :
           /\ out[i].kind = "header" /\ out[j].kind = "close"
           /\ out[i].node = out[j].node
           /\ InSubtree(pp_self, out[i].node)
           /\ NestingDepth(pp_self, out[i].node) = 1

IsPrefix(s, t) == Len(s) <= Len(t) /\ SubSeq(t, 1, Len(s)) = s

\* the records that are in the forest: the roots and all callees
ForestNodes ==
    Range(start_calls) \cup UNION {Range(callees[p]) : p \in Calls}

C14_PopsOwnRecord ==
    \A c \in Created : ended[c] = "returned" => stored_on[c] = c

\* C15: callees of record p grows only while p's own call is active
\* (entered, not yet returned or failed).
C15_CalleesOnlyWhileActive ==
    [][\A p \in Calls :
         callees'[p] # callees[p] => (Active(p) /\ ended[p] = "no")]_vars

\* record c is on some thread's stack
OnStack(c) == \E k \in DOMAIN _call_stacks : c \in Range(_call_stacks[k])

StackIsCallerChain(s) ==
    /\ NoDuplicates(s)
    /\ s # <<>> => (s[1] \in Range(start_calls) /\ caller[s[1]] = NoCall)
    /\ \A i \in 2..Len(s) : caller[s[i]] = s[i - 1]

\* C16: every stack is a caller chain of the forest: its bottom element is
\* a root in start_calls, each further element has the element below it as
\* caller and was the last of that element's callees when it was pushed;
\* no record is on a stack twice or on two stacks.
C16_StackIsCallerChain ==
    /\ [](/\ \A k \in DOMAIN _call_stacks : StackIsCallerChain(_call_stacks[k])
          /\ \A k1, k2 \in DOMAIN _call_stacks :
                 k1 # k2 =>
                     Range(_call_stacks[k1]) \cap Range(_call_stacks[k2]) = {})
    /\ [][\A k \in DOMAIN _call_stacks :
            (Len(_call_stacks'[k]) = Len(_call_stacks[k]) + 1
             /\ _call_stacks[k] # <<>>) =>
                Last(callees[Last(_call_stacks[k])]) = Last(_call_stacks'[k])]_vars

\* a stack of three records whose middle record belongs to a failed call
C16_Witness ==
    \E k \in DOMAIN _call_stacks :
        /\ Len(_call_stacks[k]) = 3
        /\ ended[_call_stacks[k][2]] = "raised"

\* C17: every record on a stack has result = UNINITIALIZED, and a result
\* is written only in the step that removes the record from its stack.
C17_OnStackUninitialized ==
    /\ [](\A c \in Calls : OnStack(c) => result[c] = UNINITIALIZED)
    /\ [][\A c \in Calls :
            result'[c] # result[c] => (OnStack(c) /\ ~OnStack(c)')]_vars

\* the record of a failed call has been popped and written while another
\* record is still on a stack
C17_Witness ==
    /\ \E c \in Created :
           ended[c] = "raised" /\ result[c] # UNINITIALIZED /\ ~OnStack(c)
    /\ \E c \in Created : OnStack(c)

RECURSIVE AncestorAt(_, _)
\* the record reached from c by n caller links, stopping at a record
\* without caller
AncestorAt(c, n) ==
    IF n = 0 \/ caller[c] = NoCall THEN c ELSE AncestorAt(caller[c], n - 1)

RECURSIVE CallerPower(_, _)
\* the n-th caller of c, NoCall when the chain ends before
CallerPower(c, n) ==
    IF c = NoCall \/ n = 0 THEN c ELSE CallerPower(caller[c], n - 1)

ParentsOf(c) == {p \in Calls : c \in Range(callees[p])}

\* C18: the recorded calls form a forest rooted in start_calls: every
\* record placed in the forest is either a root (in start_calls, caller =
\* None, in no callees list) or in the callees of exactly one other record
\* (and not in start_calls); the caller relation has no cycle; following
\* caller links from any record ends at a member of start_calls.
C18_Forest ==
    \A c \in Created :
        Linked(c) =>
            /\ \/ /\ c \in Range(start_calls)
                  /\ caller[c] = NoCall
                  /\ ParentsOf(c) = {}
               \/ /\ c \notin Range(start_calls)
                  /\ Cardinality(ParentsOf(c)) = 1
                  /\ c \notin ParentsOf(c)
            /\ \A n \in 1..MaxCalls : CallerPower(c, n) # c
            /\ AncestorAt(c, MaxCalls) \in Range(start_calls)
            /\ caller[AncestorAt(c, MaxCalls)] = NoCall

\* two trees, one of them with a record below its root
C18_Witness ==
    /\ Len(start_calls) = 2
    /\ \E c \in Created : Linked(c) /\ caller[c] # NoCall /\ Depth(c) = 1

====
